---- MODULE Spec2Model ----
(***************************************************************************)
(* A model of nonebot-plugin-simple-gpt: the per-session bounded history   *)
(* (HistoryManager), the priority-ordered plugin pipeline (PluginManager)  *)
(* and the group-message handler with its remote call behind the           *)
(* transport lock (OpenAIClient).                                          *)
(*                                                                         *)
(* Python objects are modelled by reference: `heap.entries` holds the      *)
(* HistoryEntry objects and `heap.lists` the deque/list objects, each      *)
(* addressed by its index, so that a copy and an alias are different.      *)
(* Strings that the code strips or tests for emptiness are sequences of    *)
(* one-character strings.                                                  *)
(***************************************************************************)
EXTENDS Integers, Sequences, FiniteSets, TLC

VARIABLES
    plugin_config,      \* the Config record read by the module (constant after Init)
    history_manager,    \* HistoryManager: [limit, store], store: session_id -> deque object
    heap,               \* the objects: [lists: id -> seq of entry ids, entries: id -> HistoryEntry]
    appended,           \* history of the appends: session_id -> seq of entry ids, oldest first
    caller,             \* what a caller of snapshot holds: [snap: list id or 0, session]
    op,                 \* the operation that produced the state
    plugin_manager,     \* PluginManager: [plugins: seq of (priority, plugin)]
    registered,         \* history of the register calls: seq of (priority, plugin)
    run,                \* the run of the pipeline in progress, or the last one
    msgs,               \* the handler invocations: message id -> its frame (pc and locals)
    lock,               \* OpenAIClient._lock: [locked, waiters]
    emitted,            \* what matcher.send delivered: message id -> seq of texts
    images,             \* an invocation of extract_image_data_urls
    llm_response        \* the payload RemoveThinkTagPlugin.after_llm_response is given

vars == <<plugin_config, history_manager, heap, appended, caller, op,
          plugin_manager, registered, run, msgs, lock, emitted, images,
          llm_response>>
pureVars == <<images, llm_response>>
botVars == <<msgs, lock, emitted>>
histVars == <<history_manager, heap, appended, caller>>
pipeVars == <<plugin_manager, registered, run>>

-----------------------------------------------------------------------------
(* Bounds of the model *)

MaxLimit == 2
MaxAppends == 3
MaxMutations == 2
MaxPlugins == 3
MaxMsgs == 2
MaxSegments == 2
MaxContent == 5

Groups == {1, 2}
\* the fixed speaker of a bot turn (a CJK literal in the source)
BotLabel == "bot"
\* the entry the direct driver appends (each append makes a new object)
EntryInputs == {[speaker |-> "alice", content |-> <<"a">>, is_bot |-> FALSE]}

session_id_of(group_id) == <<"group_", group_id>>
SessionIds == {session_id_of(g) : g \in Groups}

-----------------------------------------------------------------------------
(* HistoryEntry and HistoryManager *)

HistoryEntry(speaker, content, is_bot) ==
    [speaker |-> speaker, content |-> content, is_bot |-> is_bot, images |-> <<>>]

\* HistoryManager.__init__: no session has a deque yet (0 stands for a missing key)
HistoryManagerInit(limit) == [limit |-> limit, store |-> [s \in SessionIds |-> 0]]

\* A freed slot of heap.lists (no entry has id 0).
Freed == <<0>>

\* the id of the next list/deque object
NewListId(h) == Len(h.lists) + 1

\* a new list/deque object holding `items`, at NewListId(h)
AllocList(h, items) == [h EXCEPT !.lists = Append(@, items)]

RECURSIVE DropFreedTail(_)
DropFreedTail(lists) ==
    IF lists # <<>> /\ lists[Len(lists)] = Freed
    THEN DropFreedTail(SubSeq(lists, 1, Len(lists) - 1))
    ELSE lists

\* the list object `id` lost its last reference, unless the store holds it
Release(hm, h, id) ==
    IF id = 0 \/ (\E s \in SessionIds : hm.store[s] = id) THEN h
    ELSE [h EXCEPT !.lists = DropFreedTail([@ EXCEPT ![id] = Freed])]

\* a new HistoryEntry object; its id is the index in heap.entries
AllocEntry(h, entry) == [h EXCEPT !.entries = Append(@, entry)]

\* a bounded buffer that refuses the new item when it is full
DequeAppendDropNewest(items, x, maxlen) ==
    IF Len(items) >= maxlen THEN items ELSE Append(items, x)

\* deque.append on a deque built with maxlen: a full deque drops its oldest item
DequeAppend(items, x, maxlen) ==
    IF Len(items) >= maxlen
    THEN Append(SubSeq(items, 2, Len(items)), x)
    ELSE Append(items, x)

\* HistoryManager.append(session_id, entry), entry an object id.
\* Gives the manager and the heap after the call.
append(hm, h, session_id, entry_id) ==
    LET missing == hm.store[session_id] = 0
        h1 == IF missing THEN AllocList(h, <<>>) ELSE h
        history == IF missing THEN NewListId(h) ELSE hm.store[session_id]
        hm1 == IF missing THEN [hm EXCEPT !.store[session_id] = history] ELSE hm
    IN [hm |-> hm1,
        heap |-> [h1 EXCEPT !.lists[history] = DequeAppend(@, entry_id, hm.limit)]]

\* a snapshot that hands out the deque itself
snapshotAlias(hm, h, session_id) ==
    LET history == hm.store[session_id]
    IN IF history = 0
       THEN [hm |-> hm, heap |-> AllocList(h, <<>>), list |-> NewListId(h)]
       ELSE [hm |-> hm, heap |-> h, list |-> history]

\* HistoryManager.snapshot(session_id): [hm, heap, list], list the id of the
\* object returned.  `list(history)` is a new list holding the same entry
\* objects; `[]` is a new empty list.
snapshot(hm, h, session_id) ==
    LET history == hm.store[session_id]
        empty == IF history = 0 THEN TRUE ELSE Len(h.lists[history]) = 0
    IN IF empty
       THEN [hm |-> hm, heap |-> AllocList(h, <<>>), list |-> NewListId(h)]
       ELSE [hm |-> hm, heap |-> AllocList(h, h.lists[history]),
             list |-> NewListId(h)]

\* what the store holds for a session, by value: the entries a snapshot returns
Stored(hm, h, session_id) ==
    LET history == hm.store[session_id]
    IN IF history = 0 THEN <<>>
       ELSE [i \in 1..Len(h.lists[history]) |-> h.entries[h.lists[history][i]]]

\* the same by identity: the entry objects, oldest first
StoredIds(hm, h, session_id) ==
    IF hm.store[session_id] = 0 THEN <<>> ELSE h.lists[hm.store[session_id]]

-----------------------------------------------------------------------------
(* Config, strings and the response body *)

\* the default of simple_gpt_failure_reply, and the text that stands for an
\* empty message (CJK literals in the source)
DefaultFailureReply == <<"f", "b">>
NoTextPlaceholder == <<"(no text)">>

Config(limit, api_key, probability, failure_reply) ==
    [simple_gpt_history_limit |-> limit,
     simple_gpt_api_key |-> api_key,
     simple_gpt_reply_probability |-> probability,
     simple_gpt_failure_reply |-> failure_reply]

\* str.strip(): leading and trailing whitespace removed
Whitespace == {" ", "\n"}

RECURSIVE LStrip(_)
LStrip(str) ==
    IF str # <<>> /\ Head(str) \in Whitespace THEN LStrip(Tail(str)) ELSE str

RECURSIVE RStrip(_)
RStrip(str) ==
    IF str # <<>> /\ str[Len(str)] \in Whitespace
    THEN RStrip(SubSeq(str, 1, Len(str) - 1)) ELSE str

Strip(str) == RStrip(LStrip(str))

\* JSON values as Python holds them after response.json()
JNull == [t |-> "null", s |-> <<>>, n |-> 0, items |-> <<>>, fields |-> <<>>]
JStr(str) == [JNull EXCEPT !.t = "str", !.s = str]
JNum(n) == [JNull EXCEPT !.t = "num", !.n = n]
JList(items) == [JNull EXCEPT !.t = "list", !.items = items]
JObj(fields) == [JNull EXCEPT !.t = "obj", !.fields = fields]
JEmptyObj == [JNull EXCEPT !.t = "obj"]

\* a Python expression's result: a value, or an exception raised
Val(v) == [raised |-> FALSE, v |-> v]
Raised == [raised |-> TRUE, v |-> JNull]

\* bool(v)
Truthy(v) ==
    CASE v.t = "null" -> FALSE
      [] v.t = "str" -> v.s # <<>>
      [] v.t = "num" -> v.n # 0
      [] v.t = "list" -> v.items # <<>>
      [] OTHER -> DOMAIN v.fields # {}

\* v.get(key, default): only a dict has get
PyGet(v, key, default) ==
    IF v.t # "obj" THEN Raised
    ELSE IF key \in DOMAIN v.fields THEN Val(v.fields[key])
    ELSE Val(default)

\* v[0] of a truthy v: the first item of a list, the first character of a
\* str; a dict has no key 0 (JSON keys are strings), a number no items
PyIndex0(v) ==
    CASE v.t = "list" -> Val(v.items[1])
      [] v.t = "str" -> Val(JStr(<<v.s[1]>>))
      [] OTHER -> Raised

\* lines 175-184 of call_large_language_model, data the decoded body:
\* [kind: "text" | "none" | "raise", text]
ParseNone == [kind |-> "none", text |-> <<>>]
ParseRaise == [kind |-> "raise", text |-> <<>>]

ParseCompletion(data) ==
    LET choices == PyGet(data, "choices", JNull)
    IN IF choices.raised THEN ParseRaise
       ELSE IF ~Truthy(choices.v) THEN ParseNone
       ELSE LET first == PyIndex0(choices.v)
            IN IF first.raised THEN ParseRaise
               ELSE LET message == PyGet(first.v, "message", JEmptyObj)
                    IN IF message.raised THEN ParseRaise
                       ELSE LET content == PyGet(message.v, "content", JNull)
                            IN IF content.raised THEN ParseRaise
                               ELSE IF ~Truthy(content.v) THEN ParseNone
                               ELSE IF content.v.t # "str" THEN ParseRaise
                               ELSE [kind |-> "text", text |-> Strip(content.v.s)]

\* What the POST may come to.  The first three are raised inside
\* post_chat_completion (the transport or its timeout, raise_for_status,
\* response.json());
\* the others are bodies of a 2xx response.
Completion(content) ==
    JObj([k \in {"choices"} |->
            JList(<<JObj([m \in {"message"} |->
                            JObj([c \in {"content"} |-> content])])>>)])

Outcomes == <<
    [name |-> "connect_error", raises |-> TRUE, body |-> JNull],
    [name |-> "status_500", raises |-> TRUE, body |-> JNull],
    [name |-> "not_json", raises |-> TRUE, body |-> JNull],
    [name |-> "text", raises |-> FALSE, body |-> Completion(JStr(<<"h", "i">>))],
    [name |-> "padded_text", raises |-> FALSE,
        body |-> Completion(JStr(<<" ", "h", "i", " ">>))],
    [name |-> "blank_text", raises |-> FALSE, body |-> Completion(JStr(<<" ">>))],
    [name |-> "empty_text", raises |-> FALSE, body |-> Completion(JStr(<<>>))],
    [name |-> "no_choices", raises |-> FALSE, body |-> JEmptyObj],
    [name |-> "empty_choice", raises |-> FALSE,
        body |-> JObj([k \in {"choices"} |-> JList(<<JEmptyObj>>)])],
    [name |-> "number_content", raises |-> FALSE, body |-> Completion(JNum(5))],
    [name |-> "null_message", raises |-> FALSE,
        body |-> JObj([k \in {"choices"} |->
                         JList(<<JObj([m \in {"message"} |-> JNull])>>)])],
    [name |-> "object_choices", raises |-> FALSE,
        body |-> JObj([k \in {"choices"} |-> JObj([e \in {"error"} |-> JNum(1)])])],
    [name |-> "list_body", raises |-> FALSE, body |-> JList(<<>>)] >>

\* the outcomes whose body has a non-empty string at choices[0].message.content
GoodOutcomes == {"text", "padded_text", "blank_text"}

\* call_large_language_model once the POST has come to `outcome` (lines 157-184)
CompletionResult(outcome) ==
    IF outcome.raises THEN ParseNone ELSE ParseCompletion(outcome.body)

-----------------------------------------------------------------------------
(* The message handler: events, frames, the transport lock *)

MsgIds == 1..MaxMsgs

SelfId == "42"

\* random.random() and simple_gpt_reply_probability, in units of 1/2:
\* the draw is in [0, 1); the probability is 0 (no random reply) or 1/2
Draws == {0, 1}
Probabilities == {0, 1}

NoEvent == [kind |-> "none", group_id |-> 0, user_id |-> "", to_me |-> FALSE,
            text |-> <<>>, card |-> "", nickname |-> ""]

\* The events the adapter delivers: a private message, a group message of
\* the bot itself, and group messages of a user, with and without text,
\* with and without a card name.
EventInputs ==
    {[NoEvent EXCEPT !.kind = "private", !.user_id = "10001"],
     [NoEvent EXCEPT !.kind = "group", !.group_id = 1, !.user_id = SelfId,
                     !.text = <<"h">>]}
    \cup {[NoEvent EXCEPT !.kind = "group", !.group_id = g, !.user_id = "10001",
                          !.to_me = t, !.text = x.text, !.card = x.card,
                          !.nickname = x.nickname] :
            g \in Groups, t \in BOOLEAN,
            x \in {[text |-> <<" ">>, card |-> "", nickname |-> ""],
                   [text |-> <<" ", "h", " ">>, card |-> "", nickname |-> "nick"]}}

\* event.sender.card or event.sender.nickname or f"user{user_id}"
DisplayName(event) ==
    IF event.card # "" THEN event.card
    ELSE IF event.nickname # "" THEN event.nickname
    ELSE "user" \o event.user_id

\* event.get_plaintext().strip(), or the placeholder when that is empty
PlainText(event) ==
    IF Strip(event.text) = <<>> THEN NoTextPlaceholder ELSE Strip(event.text)

\* should_reply(event), draw the value random.random() gives if it is asked
should_reply(event, draw) ==
    IF event.to_me THEN TRUE
    ELSE IF plugin_config.simple_gpt_reply_probability <= 0 THEN FALSE
    ELSE draw < plugin_config.simple_gpt_reply_probability

\* the decision without line 215-216
ReplyNeededIgnoringKey(event, draw) == should_reply(event, draw)

\* reply_needed after line 216: a random reply needs an API key
ReplyNeeded(event, draw) ==
    IF should_reply(event, draw) /\ ~event.to_me
         /\ plugin_config.simple_gpt_api_key = <<>>
    THEN FALSE
    ELSE should_reply(event, draw)

\* generate_prompt(history=..., sender=..., latest_message=...): the three
\* values the template is filled with, history the list object `list_id`
NoPrompt == [placeholder |-> TRUE, history_lines |-> <<>>, sender |-> "",
             latest_message |-> <<>>]

\* a prompt whose history already holds the latest message
generate_prompt_with_latest(h, list_id, sender, latest_message) ==
    [placeholder |-> FALSE,
     history_lines |-> [i \in 1..Len(h.lists[list_id]) |->
                          <<h.entries[h.lists[list_id][i]].speaker,
                            h.entries[h.lists[list_id][i]].content>>]
                       \o <<<<sender, latest_message>>>>,
     sender |-> sender,
     latest_message |-> latest_message]

generate_prompt(h, list_id, sender, latest_message) ==
    [placeholder |-> h.lists[list_id] = <<>>,
     history_lines |-> [i \in 1..Len(h.lists[list_id]) |->
                          <<h.entries[h.lists[list_id][i]].speaker,
                            h.entries[h.lists[list_id][i]].content>>],
     sender |-> sender,
     latest_message |-> latest_message]

\* the locals of one handler invocation; pc is where it is suspended:
\* "new" (not delivered yet), "waiting" (for the lock), "posting" (the POST
\* is in flight), "sending" (matcher.send is in flight), "returned", "raised"
Frame(pc) ==
    [pc |-> pc, session_id |-> session_id_of(0), display_name |-> "",
     plain_text |-> <<>>, reply_needed |-> FALSE, reply_text |-> <<>>,
     prompt |-> NoPrompt, history_before |-> 0]

\* asyncio.Lock: acquire takes a free lock that nobody waits for, otherwise
\* the caller queues; release frees it and wakes the first waiter
LockFree == [locked |-> FALSE, waiters |-> <<>>]

\* a lock that stays held when the POST raises
LockExitOnSuccess(l, outcome) ==
    IF outcome.raises THEN l ELSE [l EXCEPT !.locked = FALSE]

\* `async with self._lock` is left: the lock is released, whether the POST
\* returned or raised (outcome is not looked at)
LockExit(l, outcome) == [l EXCEPT !.locked = FALSE]

\* a POST that does not wait for the lock
CanAcquireBarging(l) == TRUE

\* `async with self._lock` enters without waiting
CanAcquire(l) == ~l.locked /\ l.waiters = <<>>

\* both turns recorded whether or not a reply was sent
RecordTurnsBoth(hm, h, session_id, display_name, plain_text, reply_needed, reply_text) ==
    LET h1 == AllocEntry(h, HistoryEntry(display_name, plain_text, FALSE))
        r1 == append(hm, h1, session_id, Len(h1.entries))
        h2 == AllocEntry(r1.heap, HistoryEntry(BotLabel, reply_text, TRUE))
        r2 == append(r1.hm, h2, session_id, Len(h2.entries))
    IN [hm |-> r2.hm, heap |-> r2.heap, ids |-> <<Len(h1.entries), Len(h2.entries)>>]

\* the bot turn recorded before the user turn
RecordTurnsBotFirst(hm, h, session_id, display_name, plain_text, reply_needed, reply_text) ==
    LET h1 == AllocEntry(h, HistoryEntry(display_name, plain_text, FALSE))
        user == Len(h1.entries)
        r1 == append(hm, h1, session_id, user)
        h2 == AllocEntry(h1, HistoryEntry(BotLabel, reply_text, TRUE))
        bot == Len(h2.entries)
        b1 == append(hm, h2, session_id, bot)
        b2 == append(b1.hm, b1.heap, session_id, user)
    IN IF reply_needed /\ reply_text # <<>>
       THEN [hm |-> b2.hm, heap |-> b2.heap, ids |-> <<bot, user>>]
       ELSE [hm |-> r1.hm, heap |-> r1.heap, ids |-> <<user>>]

\* the bot turn never recorded
RecordTurnsUserOnly(hm, h, session_id, display_name, plain_text, reply_needed, reply_text) ==
    LET h1 == AllocEntry(h, HistoryEntry(display_name, plain_text, FALSE))
        r1 == append(hm, h1, session_id, Len(h1.entries))
    IN [hm |-> r1.hm, heap |-> r1.heap, ids |-> <<Len(h1.entries)>>]

\* lines 231-240: the user turn, then the bot turn if a reply text was sent
RecordTurns(hm, h, session_id, display_name, plain_text, reply_needed, reply_text) ==
    LET h1 == AllocEntry(h, HistoryEntry(display_name, plain_text, FALSE))
        user == Len(h1.entries)
        r1 == append(hm, h1, session_id, user)
        h2 == AllocEntry(r1.heap, HistoryEntry(BotLabel, reply_text, TRUE))
        bot == Len(h2.entries)
        r2 == append(r1.hm, h2, session_id, bot)
    IN IF reply_needed /\ reply_text # <<>>
       THEN [hm |-> r2.hm, heap |-> r2.heap, ids |-> <<user, bot>>]
       ELSE [hm |-> r1.hm, heap |-> r1.heap, ids |-> <<user>>]

BotIdle ==
    /\ msgs = [m \in MsgIds |-> Frame("new")]
    /\ lock = LockFree
    /\ emitted = [m \in MsgIds |-> <<>>]

-----------------------------------------------------------------------------
(* PluginManager *)

\* The plugin objects.  "RemoveThinkTagPlugin" declares priority = 100,
\* "SimpleGPTPlugin" is an instance of the base class (priority = 0).
Plugins == {"RemoveThinkTagPlugin", "SimpleGPTPlugin"}

RemoveThinkPriority == 100
BasePriority == 0

\* getattr(plugin, "priority", 0)
PluginPriorityAttr(plugin) ==
    IF plugin = "RemoveThinkTagPlugin" THEN RemoveThinkPriority ELSE BasePriority

\* the priority= argument of register: None, or an integer
NoPriority == [none |-> TRUE, value |-> 0]
PriorityArgs == {NoPriority} \cup {[none |-> FALSE, value |-> v] : v \in {1, 5, 10}}

\* a descending sort that puts an item before the items of equal priority
\* (an ascending sort, then reversed)
InsertDescTiesReversed(sorted, item) ==
    LET before == SelectSeq(sorted, LAMBDA x : x.priority > item.priority)
        after == SelectSeq(sorted, LAMBDA x : x.priority <= item.priority)
    IN before \o <<item>> \o after

\* list.sort(key=priority, reverse=True) is stable: equal keys keep their order.
\* Each item goes behind every item whose priority is at least its own.
InsertDesc(sorted, item) ==
    LET before == SelectSeq(sorted, LAMBDA x : x.priority >= item.priority)
        after == SelectSeq(sorted, LAMBDA x : x.priority < item.priority)
    IN before \o <<item>> \o after

RECURSIVE SortDesc(_)
SortDesc(items) ==
    IF items = <<>> THEN <<>>
    ELSE InsertDesc(SortDesc(SubSeq(items, 1, Len(items) - 1)), items[Len(items)])

\* PluginManager.register(plugin, priority=...)
register(pm, plugin, priority) ==
    LET plugin_priority == IF ~priority.none THEN priority.value
                           ELSE PluginPriorityAttr(plugin)
    IN [pm EXCEPT !.plugins =
            SortDesc(Append(@, [priority |-> plugin_priority, plugin |-> plugin]))]

\* A payload object (LLMRequestPayload or LLMResponsePayload): its identity
\* and its content, the sequence of the plugins that rewrote it.
NoPayload == [id |-> 0, content |-> <<>>]
InputPayload == [id |-> 1, content |-> <<>>]

\* What a hook may do with the payload it is given: return it as it is (the
\* base class), change it in place and return it, return a new payload, raise.
HookOutcomes == {"same", "mutate", "new", "raise"}

HookReturn(payload, plugin, outcome, fresh_id) ==
    CASE outcome = "same" -> payload
      [] outcome = "mutate" -> [payload EXCEPT !.content = Append(@, plugin)]
      [] outcome = "new" -> [id |-> fresh_id, content |-> Append(payload.content, plugin)]
      [] OTHER -> NoPayload

\* every hook given the payload the run was called with
HookArgumentOriginal(r) == r.input

\* the argument of the next hook call: `payload`, rebound by each iteration
HookArgument(r) == r.payload

\* a loop that catches a hook's exception and goes on with the next hook
AfterHookSwallow(r, plugin, outcome, n) ==
    LET got == HookArgument(r)
        gave == IF outcome = "raise" THEN got
                ELSE HookReturn(got, plugin, outcome, r.idx + 1)
        t == Append(r.trace, [plugin |-> plugin, got |-> got, gave |-> gave,
                              outcome |-> outcome])
    IN IF r.idx = n
       THEN [r EXCEPT !.status = "returned", !.trace = t, !.payload = gave,
                      !.result = gave]
       ELSE [r EXCEPT !.idx = @ + 1, !.trace = t, !.payload = gave]

\* One iteration of `for _, plugin in self._plugins: payload = await hook(payload)`,
\* n the length of the list; after the last one the run returns payload.
\* A hook that raises is not caught: the loop and the run end with it.
AfterHook(r, plugin, outcome, n) ==
    LET got == HookArgument(r)
        gave == HookReturn(got, plugin, outcome, r.idx + 1)
        t == Append(r.trace, [plugin |-> plugin, got |-> got, gave |-> gave,
                              outcome |-> outcome])
    IN IF outcome = "raise"
       THEN [r EXCEPT !.status = "raised", !.trace = t, !.payload = NoPayload]
       ELSE IF r.idx = n
       THEN [r EXCEPT !.status = "returned", !.trace = t, !.payload = gave,
                      !.result = gave]
       ELSE [r EXCEPT !.idx = @ + 1, !.trace = t, !.payload = gave]

RunIdle == [status |-> "idle", kind |-> "none", idx |-> 0, input |-> NoPayload,
            payload |-> NoPayload, result |-> NoPayload, trace |-> <<>>]

PipelineIdle ==
    /\ plugin_manager = [plugins |-> <<>>]
    /\ registered = <<>>
    /\ run = RunIdle

-----------------------------------------------------------------------------
(* plugins/remove_think.py: RemoveThinkTagPlugin *)

\* A response content as the pieces the pattern can tell apart: the tags
\* "<think>", "<THINK>" and "</think>", the halves "<th" and "ink>" of an
\* opening tag, other text, and whitespace.
ThinkPieces == {"<think>", "<THINK>", "</think>", "<th", "ink>", "x", " "}

\* the characters of the pieces: "<th" followed by "ink>" is "<think>"
RECURSIVE Canon(_)
Canon(content) ==
    IF Len(content) < 2 THEN content
    ELSE IF content[1] = "<th" /\ content[2] = "ink>"
    THEN <<"<think>">> \o Canon(SubSeq(content, 3, Len(content)))
    ELSE <<content[1]>> \o Canon(Tail(content))

\* re.IGNORECASE: the opening tag in either case
IsOpenTag(piece) == piece \in {"<think>", "<THINK>"}

\* self._pattern.sub("", content) for r"<think>.*?</think>" with DOTALL:
\* from the left, an opening tag and everything up to the nearest closing
\* tag after it are removed, and the scan goes on behind the closing tag;
\* what the removal joins is not scanned again
RECURSIVE PatternSub(_)
PatternSub(content) ==
    IF content = <<>> THEN <<>>
    ELSE LET closing == {j \in 2..Len(content) : content[j] = "</think>"}
             nearest == CHOOSE j \in closing : \A k \in closing : j <= k
         IN IF IsOpenTag(content[1]) /\ closing # {}
            THEN PatternSub(SubSeq(content, nearest + 1, Len(content)))
            ELSE <<content[1]>> \o PatternSub(Tail(content))

\* "<think>232323232323</think>\n"
DebugMarker == <<"<think>", "232323232323", "</think>", "\n">>

\* after_llm_response(payload): payload.content when it returns (lines 21-24)
after_llm_response(content) ==
    LET marked == DebugMarker \o content
        cleaned == Strip(PatternSub(Canon(marked)))
    IN IF cleaned # <<>> THEN cleaned ELSE marked

\* the LLMResponsePayload the hook is called with: the content it had at
\* the call, the content it has now, and whether the hook has returned
PayloadIdle == [status |-> "idle", original |-> <<>>, content |-> <<>>]

-----------------------------------------------------------------------------
(* image_utils: image segments to data URLs *)

MAX_IMAGE_BYTES == 5 * 1024 * 1024

\* A bytes object: its length, which bytes they are (id), and the format
\* imghdr.what recognises in them ("" for none).  NoneBytes is None.
NoneBytes == [none |-> TRUE, size |-> 0, id |-> "", kind |-> ""]
AtCeiling == [none |-> FALSE, size |-> MAX_IMAGE_BYTES, id |-> "a", kind |-> "gif"]
OverCeiling == [none |-> FALSE, size |-> MAX_IMAGE_BYTES + 1, id |-> "b", kind |-> ""]

\* A string of segment.data, by what the code asks of it and what the file
\* system and the network answer for it:
\*   form     "none" (absent or empty), "base64" (starts with base64://),
\*            "url" (starts with http:// or https://), "file_uri" (urlparse
\*            gives the scheme file), "path" (anything else)
\*   guess    mimetypes.guess_type of the string, "" for None
\*   decoded  base64.b64decode of what follows base64://, None if it raises
\*   stat     Path(...).exists(): "ok", "missing", or "raises" (an OSError
\*            other than ENOENT, ENOTDIR, EBADF, ELOOP is re-raised)
\*   read     path.read_bytes(), None if it raises
\*   fetch    client.get + raise_for_status: "ok", "network_error", "status_error"
\*   body     response.content
\*   content_type  the content-type header split at ";", <<>> if there is none
NoToken ==
    [form |-> "none", guess |-> "", decoded |-> NoneBytes, stat |-> "missing",
     read |-> NoneBytes, fetch |-> "network_error", body |-> NoneBytes,
     content_type |-> <<>>]

Base64Token(decoded) == [NoToken EXCEPT !.form = "base64", !.decoded = decoded]

PathToken(stat, read) ==
    [NoToken EXCEPT !.form = "path", !.guess = "image/jpeg", !.stat = stat,
                    !.read = read]

FileUriToken(read) ==
    [NoToken EXCEPT !.form = "file_uri", !.stat = IF read.none THEN "missing" ELSE "ok",
                    !.read = read]

UrlToken(fetch, body, content_type) ==
    [NoToken EXCEPT !.form = "url", !.fetch = fetch, !.body = body,
                    !.content_type = content_type]

\* the values of data["file"], data["path"], data["url"]
FileInputs ==
    {NoToken, Base64Token(NoneBytes), Base64Token(AtCeiling), Base64Token(OverCeiling),
     UrlToken("ok", AtCeiling, <<>>),
     PathToken("ok", AtCeiling), PathToken("ok", OverCeiling),
     PathToken("ok", NoneBytes), PathToken("missing", NoneBytes),
     PathToken("raises", NoneBytes),
     FileUriToken(NoneBytes)}

PathInputs == {NoToken, PathToken("ok", AtCeiling), PathToken("ok", OverCeiling)}

UrlInputs ==
    {NoToken,
     UrlToken("ok", AtCeiling, <<"image/webp", " charset=binary">>),
     UrlToken("ok", OverCeiling, <<>>),
     UrlToken("network_error", NoneBytes, <<>>),
     UrlToken("status_error", NoneBytes, <<>>)}

Segment(type, file, path, url) ==
    [type |-> type, file |-> file, path |-> path, url |-> url]

\* The segments of a message: a text segment, image segments with one
\* field, and image segments that carry a path and a url beside a file
\* token that gives no content.
SegmentInputs ==
    {Segment("text", NoToken, NoToken, NoToken)}
    \cup {Segment("image", f, NoToken, NoToken) : f \in FileInputs}
    \cup {Segment("image", f, p, u) :
            f \in {NoToken, Base64Token(NoneBytes), PathToken("ok", OverCeiling)},
            p \in PathInputs, u \in UrlInputs}

\* what a function returns, or that it raised
Returned(v) == [raised |-> FALSE, value |-> v]
Raises == [raised |-> TRUE, value |-> NoneBytes]

_decode_inline_base64(value) == value.decoded

_looks_like_url(text) == text.form = "url"

_is_local_path(text) ==
    IF text.form = "file_uri" THEN Returned(TRUE)
    ELSE IF text.form = "path" /\ text.stat = "raises" THEN [raised |-> TRUE, value |-> FALSE]
    ELSE Returned(text.form = "path" /\ text.stat = "ok")

\* the Path, or None: "file" (no check), "found", "none"
_resolve_path(path_str) ==
    IF path_str.form = "file_uri" THEN Returned("file")
    ELSE IF path_str.form = "path" /\ path_str.stat = "raises"
    THEN [raised |-> TRUE, value |-> "none"]
    ELSE IF path_str.form = "path" /\ path_str.stat = "ok" THEN Returned("found")
    ELSE Returned("none")

\* a read with no ceiling
_load_local_file_unchecked(path_str) ==
    LET path == _resolve_path(path_str)
    IN IF path.raised THEN Raises
       ELSE IF path.value = "none" THEN Returned(NoneBytes)
       ELSE Returned(path_str.read)

_load_local_file(path_str) ==
    LET path == _resolve_path(path_str)
        data == path_str.read
    IN IF path.raised THEN Raises
       ELSE IF path.value = "none" THEN Returned(NoneBytes)
       ELSE IF data.none THEN Returned(NoneBytes)
       ELSE IF data.size > MAX_IMAGE_BYTES THEN Returned(NoneBytes)
       ELSE Returned(data)

\* (content, content_type)
_download_image(url) ==
    IF url.fetch # "ok" THEN [content |-> NoneBytes, content_type |-> <<>>]
    ELSE IF url.body.size > MAX_IMAGE_BYTES
    THEN [content |-> NoneBytes, content_type |-> <<>>]
    ELSE [content |-> url.body, content_type |-> url.content_type]

_resolve_mime(content, content_type, filename) ==
    IF content_type # <<>> THEN content_type[1]
    ELSE IF filename.form # "none" /\ filename.guess # "" THEN filename.guess
    ELSE IF content.kind # "" THEN "image/" \o content.kind
    ELSE "image/png"

\* f"data:{mime};base64,{encoded}"; `size` and `source` are not part of the
\* string: how many bytes were encoded, and which field they came from
NoDataUrl == [none |-> TRUE, mime |-> "", base64 |-> <<>>, size |-> 0, source |-> ""]

_build_data_url(content, content_type, filename, source) ==
    [none |-> FALSE,
     mime |-> _resolve_mime(content, content_type, filename),
     base64 |-> <<"b64", content.id>>,
     size |-> content.size,
     source |-> source]

_segment_to_data_url(segment) ==
    LET file_value == segment.file
        path_value == segment.path
        \* lines 42-49
        inline == file_value.form = "base64"
        as_url == ~inline /\ _looks_like_url(file_value) /\ segment.url.form = "none"
        local == IF file_value.form = "none" \/ inline \/ as_url
                 THEN Returned(FALSE) ELSE _is_local_path(file_value)
        first == IF inline THEN Returned(_decode_inline_base64(file_value))
                 ELSE IF local.raised THEN Raises
                 ELSE IF local.value THEN _load_local_file(file_value)
                 ELSE Returned(NoneBytes)
        url == IF as_url THEN file_value ELSE segment.url
        \* lines 51-53
        use_path == first.value.none /\ path_value.form # "none"
        second == IF use_path THEN _load_local_file(path_value) ELSE first
        filename == IF use_path THEN path_value ELSE file_value
        \* lines 55-56
        use_url == second.value.none /\ url.form # "none"
        got == _download_image(url)
        content == IF use_url THEN got.content ELSE second.value
        content_type == IF use_url THEN got.content_type ELSE <<>>
        source == IF use_url THEN "url"
                  ELSE IF use_path THEN "path"
                  ELSE IF inline THEN "inline" ELSE "file"
    IN IF first.raised \/ second.raised THEN [raised |-> TRUE, value |-> NoDataUrl]
       ELSE IF content.none THEN Returned(NoDataUrl)
       ELSE Returned(_build_data_url(content, content_type, filename, source))

\* an invocation of extract_image_data_urls: the message, the position of
\* the loop, data_urls, where it is ("idle", "running", "returned",
\* "raised"), and what _segment_to_data_url gave for each segment taken
ImagesIdle == [message |-> <<>>, idx |-> 0, data_urls |-> <<>>, status |-> "idle",
               results |-> <<>>]

PureIdle ==
    /\ images = ImagesIdle
    /\ llm_response = PayloadIdle

-----------------------------------------------------------------------------
(* The pipeline driven directly.  Plugins register while their modules are  *)
(* imported (plugins/__init__.py, remove_think.py), not from a running hook.*)

HistoryIdle ==
    /\ history_manager = HistoryManagerInit(plugin_config.simple_gpt_history_limit)
    /\ heap = [lists |-> <<>>, entries |-> <<>>]
    /\ appended = [s \in SessionIds |-> <<>>]
    /\ caller = [snap |-> 0, session |-> 0, muts |-> 0]

InitPipeline ==
    /\ plugin_config = Config(1, <<>>, 0, DefaultFailureReply)
    /\ HistoryIdle
    /\ PipelineIdle
    /\ BotIdle
    /\ PureIdle
    /\ op = [name |-> "init"]

\* register_simple_gpt_plugin(plugin, priority=...); the record of a
\* finished run is dropped
Register(plugin, priority) ==
    /\ run.status # "running"
    /\ Len(plugin_manager.plugins) < MaxPlugins
    /\ plugin_manager' = register(plugin_manager, plugin, priority)
    /\ registered' = Append(registered,
            [priority |-> IF priority.none THEN PluginPriorityAttr(plugin)
                          ELSE priority.value,
             plugin |-> plugin])
    /\ run' = RunIdle
    /\ op' = [name |-> "register"]
    /\ UNCHANGED <<plugin_config, pureVars, histVars, botVars>>

\* run_before_llm_request(payload) / run_after_llm_response(payload) is called:
\* with no plugin the loop body never runs and payload is returned at once.
RunStart(kind) ==
    /\ run.status # "running"
    /\ run' = IF plugin_manager.plugins = <<>>
              THEN [RunIdle EXCEPT !.status = "returned", !.kind = kind,
                                   !.input = InputPayload, !.payload = InputPayload,
                                   !.result = InputPayload]
              ELSE [RunIdle EXCEPT !.status = "running", !.kind = kind, !.idx = 1,
                                   !.input = InputPayload, !.payload = InputPayload]
    /\ op' = [name |-> "run_start"]
    /\ UNCHANGED <<plugin_config, pureVars, histVars, plugin_manager, registered, botVars>>

\* the awaited hook of the plugin at the loop's position completes
HookStep(outcome) ==
    /\ run.status = "running"
    /\ run' = AfterHook(run, plugin_manager.plugins[run.idx].plugin, outcome,
                        Len(plugin_manager.plugins))
    /\ op' = [name |-> "hook"]
    /\ UNCHANGED <<plugin_config, pureVars, histVars, plugin_manager, registered, botVars>>

NextPipeline ==
    \/ \E p \in Plugins, pr \in PriorityArgs : Register(p, pr)
    \/ \E k \in {"before", "after"} : RunStart(k)
    \/ \E o \in HookOutcomes : HookStep(o)

SpecPipeline == InitPipeline /\ [][NextPipeline]_vars

-----------------------------------------------------------------------------
(* The history store driven directly: appends, snapshots, and a caller that *)
(* mutates what snapshot returned to it.                                    *)

Limits == 1..MaxLimit

InitHistory ==
    /\ plugin_config \in {Config(l, <<>>, 0, DefaultFailureReply) : l \in Limits}
    /\ HistoryIdle
    /\ PipelineIdle
    /\ BotIdle
    /\ PureIdle
    /\ op = [name |-> "init"]

\* history_manager.append(session_id, HistoryEntry(...))
HAppend(s, speaker, content, is_bot) ==
    /\ Len(heap.entries) < MaxAppends
    /\ LET h1 == AllocEntry(heap, HistoryEntry(speaker, content, is_bot))
           e == Len(h1.entries)
           r == append(history_manager, h1, s, e)
       IN /\ history_manager' = r.hm
          /\ heap' = r.heap
          /\ appended' = [appended EXCEPT ![s] = Append(@, e)]
    /\ op' = [name |-> "append"]
    /\ UNCHANGED <<plugin_config, pureVars, caller, pipeVars, botVars>>

\* snap = history_manager.snapshot(session_id)
\* The list the caller held before is no longer referenced and is freed.
HSnapshot(s) ==
    /\ LET r == snapshot(history_manager, Release(history_manager, heap, caller.snap), s)
       IN /\ history_manager' = r.hm
          /\ heap' = r.heap
          /\ caller' = [caller EXCEPT !.snap = r.list, !.session = s]
    /\ op' = [name |-> "snapshot"]
    /\ UNCHANGED <<plugin_config, pureVars, appended, pipeVars, botVars>>

Reverse(seq) == [i \in 1..Len(seq) |-> seq[Len(seq) + 1 - i]]

\* the caller changes the list it was given: snap.append(snap[0]), snap.pop(0), snap.reverse()
CallerMutatesList ==
    /\ caller.snap # 0
    /\ caller.muts < MaxMutations
    /\ \E items \in
            {Reverse(heap.lists[caller.snap])}
            \cup (IF Len(heap.lists[caller.snap]) > 0
                  THEN {Append(heap.lists[caller.snap], Head(heap.lists[caller.snap])),
                        Tail(heap.lists[caller.snap])}
                  ELSE {}) :
          /\ items # heap.lists[caller.snap]
          /\ heap' = [heap EXCEPT !.lists[caller.snap] = items]
    /\ caller' = [caller EXCEPT !.muts = @ + 1]
    /\ op' = [name |-> "mutate_list"]
    /\ UNCHANGED <<plugin_config, pureVars, history_manager, appended, pipeVars, botVars>>

\* the caller changes an entry held in the list it was given:
\* snap[i].speaker = v, snap[i].content = v, snap[i].images.append(v)
CallerMutatesEntry ==
    /\ caller.snap # 0
    /\ caller.muts < MaxMutations
    /\ \E i \in 1..Len(heap.lists[caller.snap]) :
         LET e == heap.lists[caller.snap][i]
         IN \E new \in {[heap.entries[e] EXCEPT !.speaker = "mallory"],
                        [heap.entries[e] EXCEPT !.content = <<"x">>],
                        [heap.entries[e] EXCEPT !.images = <<"data:">>]} :
              /\ new # heap.entries[e]
              /\ heap' = [heap EXCEPT !.entries[e] = new]
    /\ caller' = [caller EXCEPT !.muts = @ + 1]
    /\ op' = [name |-> "mutate_entry"]
    /\ UNCHANGED <<plugin_config, pureVars, history_manager, appended, pipeVars, botVars>>

NextHistory ==
    \/ \E s \in SessionIds, e \in EntryInputs :
          HAppend(s, e.speaker, e.content, e.is_bot)
    \/ \E s \in SessionIds : HSnapshot(s)
    \/ CallerMutatesList
    \/ CallerMutatesEntry

SpecHistory == InitHistory /\ [][NextHistory]_vars

-----------------------------------------------------------------------------
(* The bot: messages are delivered in the order of their ids and handled    *)
(* concurrently on one event loop; a handler runs until it awaits.          *)

ApiKeys == {<<>>, <<"s", "k">>}
FailureReplies == {<<>>, DefaultFailureReply}

Init ==
    /\ plugin_config \in {Config(l, k, p, f) :
            l \in {MaxLimit}, k \in ApiKeys, p \in Probabilities,
            f \in FailureReplies}
    /\ HistoryIdle
    /\ PipelineIdle
    /\ BotIdle
    /\ PureIdle
    /\ op = [name |-> "init"]

\* The handler is entered for message m (lines 199-229): it runs to its
\* return, or to its first await: the lock, the POST, or matcher.send.
Receive(m, event, draw) ==
    /\ msgs[m].pc = "new"
    /\ \A k \in MsgIds : k < m => msgs[k].pc # "new"
    \* random.random() is called on line 192 only; elsewhere there is no draw
    /\ (event.to_me \/ plugin_config.simple_gpt_reply_probability <= 0) => draw = 0
    /\ LET sid == session_id_of(event.group_id)
           name == DisplayName(event)
           plain == PlainText(event)
           snap == snapshot(history_manager, heap, sid)
           needed == ReplyNeeded(event, draw)
           frame == [Frame("new") EXCEPT
                        !.session_id = sid, !.display_name = name,
                        !.plain_text = plain, !.reply_needed = needed,
                        !.history_before = snap.list]
           prompt == generate_prompt(snap.heap, snap.list, name, plain)
           rec == RecordTurns(snap.hm, snap.heap, sid, name, plain, FALSE, <<>>)
       IN IF event.kind # "group" \/ event.user_id = SelfId
          THEN /\ msgs' = [msgs EXCEPT ![m] = Frame("returned")]
               /\ op' = [name |-> "discard", msg |-> m, event |-> event]
               /\ UNCHANGED <<history_manager, heap, appended, lock>>
          ELSE IF ~needed
          THEN /\ msgs' = [msgs EXCEPT ![m] = Frame("returned")]
               /\ history_manager' = rec.hm
               /\ heap' = Release(rec.hm, rec.heap, snap.list)
               /\ appended' = [appended EXCEPT ![sid] = @ \o rec.ids]
               /\ op' = [name |-> "skip", msg |-> m, event |-> event, draw |-> draw,
                         session_id |-> sid, ids |-> rec.ids]
               /\ UNCHANGED lock
          ELSE /\ history_manager' = snap.hm
               /\ heap' = snap.heap
               /\ op' = [name |-> "pending", msg |-> m, event |-> event, draw |-> draw,
                         session_id |-> sid, ids |-> <<>>]
               /\ UNCHANGED appended
               /\ IF plugin_config.simple_gpt_api_key = <<>>
                  THEN /\ msgs' = [msgs EXCEPT ![m] = [frame EXCEPT
                              !.pc = "sending",
                              !.reply_text = plugin_config.simple_gpt_failure_reply]]
                       /\ UNCHANGED lock
                  ELSE IF CanAcquire(lock)
                  THEN /\ msgs' = [msgs EXCEPT ![m] = [frame EXCEPT
                              !.pc = "posting", !.prompt = prompt]]
                       /\ lock' = [lock EXCEPT !.locked = TRUE]
                  ELSE /\ msgs' = [msgs EXCEPT ![m] = [frame EXCEPT
                              !.pc = "waiting", !.prompt = prompt]]
                       /\ lock' = [lock EXCEPT !.waiters = Append(@, m)]
    /\ UNCHANGED <<plugin_config, pureVars, caller, pipeVars, emitted>>

\* the first waiter, woken by release, takes the lock and starts its POST
LockResume(m) ==
    /\ msgs[m].pc = "waiting"
    /\ ~lock.locked
    /\ lock.waiters # <<>>
    /\ Head(lock.waiters) = m
    /\ lock' = [locked |-> TRUE, waiters |-> Tail(lock.waiters)]
    /\ msgs' = [msgs EXCEPT ![m].pc = "posting"]
    /\ op' = [name |-> "resume", msg |-> m]
    /\ UNCHANGED <<plugin_config, pureVars, histVars, pipeVars, emitted>>

\* The POST of message m comes to Outcomes[i] (lines 110-113, 157-184, 228):
\* the lock is released, the body is read, and the handler goes on to send
\* the reply, or an exception leaves it.
Response(m, i) ==
    /\ msgs[m].pc = "posting"
    /\ lock' = LockExit(lock, Outcomes[i])
    /\ LET result == CompletionResult(Outcomes[i])
       IN IF result.kind = "raise"
          THEN /\ msgs' = [msgs EXCEPT ![m] = Frame("raised")]
               /\ heap' = Release(history_manager, heap, msgs[m].history_before)
          ELSE /\ msgs' = [msgs EXCEPT ![m] = [@ EXCEPT
                      !.pc = "sending",
                      !.prompt = NoPrompt,
                      !.reply_text = IF result.kind = "text" /\ result.text # <<>>
                                     THEN result.text
                                     ELSE plugin_config.simple_gpt_failure_reply]]
               /\ UNCHANGED heap
    /\ op' = [name |-> "response", msg |-> m, outcome |-> Outcomes[i].name]
    /\ UNCHANGED <<plugin_config, pureVars, history_manager, appended, caller, pipeVars, emitted>>

\* matcher.send(reply_text) of message m completes (lines 229-240): the text
\* is delivered and the turns are recorded, or send raises and the
\* exception leaves the handler.
SendDone(m, delivered) ==
    /\ msgs[m].pc = "sending"
    /\ LET f == msgs[m]
           rec == RecordTurns(history_manager, heap, f.session_id, f.display_name,
                              f.plain_text, f.reply_needed, f.reply_text)
       IN IF delivered
          THEN /\ emitted' = [emitted EXCEPT ![m] = Append(@, f.reply_text)]
               /\ history_manager' = rec.hm
               /\ heap' = Release(rec.hm, rec.heap, f.history_before)
               /\ appended' = [appended EXCEPT ![f.session_id] = @ \o rec.ids]
               /\ msgs' = [msgs EXCEPT ![m] = Frame("returned")]
               /\ op' = [name |-> "sent", msg |-> m, session_id |-> f.session_id,
                         ids |-> rec.ids, text |-> f.reply_text]
          ELSE /\ msgs' = [msgs EXCEPT ![m] = Frame("raised")]
               /\ heap' = Release(history_manager, heap, f.history_before)
               /\ op' = [name |-> "send_failed", msg |-> m]
               /\ UNCHANGED <<emitted, history_manager, appended>>
    /\ UNCHANGED <<plugin_config, pureVars, caller, pipeVars, lock>>

Next ==
    \/ \E m \in MsgIds, e \in EventInputs, d \in Draws : Receive(m, e, d)
    \/ \E m \in MsgIds : LockResume(m)
    \/ \E m \in MsgIds, i \in 1..Len(Outcomes) : Response(m, i)
    \/ \E m \in MsgIds, delivered \in BOOLEAN : SendDone(m, delivered)

Spec == Init /\ [][Next]_vars

-----------------------------------------------------------------------------
(* Claims about the history store, checked under SpecHistory *)

Min(a, b) == IF a <= b THEN a ELSE b

LastOf(seq, k) == SubSeq(seq, Len(seq) - k + 1, Len(seq))

\* C1: after N appends to a session of a store with capacity C the store
\* holds exactly the last min(N, C) entries appended, oldest first, a
\* snapshot returns exactly those, and no stored log is longer than C.
C1_LastMinNC ==
    /\ \A s \in SessionIds :
         /\ StoredIds(history_manager, heap, s)
              = LastOf(appended[s], Min(Len(appended[s]), history_manager.limit))
         /\ Len(StoredIds(history_manager, heap, s)) <= history_manager.limit
    /\ op.name = "snapshot" =>
         heap.lists[caller.snap]
           = LastOf(appended[caller.session],
                    Min(Len(appended[caller.session]), history_manager.limit))

\* a snapshot taken of a session that has already evicted an entry
C1_Witness ==
    /\ op.name = "snapshot"
    /\ Len(appended[caller.session]) > history_manager.limit
    /\ Len(heap.lists[caller.snap]) = history_manager.limit

\* C2: snapshot leaves every stored log as it was and creates none (an
\* unknown session gives the empty sequence), and adding, removing or
\* reordering elements of the returned list leaves every stored log, and so
\* every later append and snapshot, as it was.
C2_SnapshotIsCopy ==
    [][/\ op'.name \in {"snapshot", "mutate_list"} =>
            /\ history_manager' = history_manager
            /\ \A s \in SessionIds :
                 StoredIds(history_manager', heap', s) = StoredIds(history_manager, heap, s)
       /\ (op'.name = "snapshot" /\ history_manager.store[caller'.session] = 0) =>
            heap'.lists[caller'.snap] = <<>>
       /\ op'.name = "snapshot" =>
            heap'.lists[caller'.snap] = StoredIds(history_manager, heap, caller'.session)
      ]_vars

\* the caller has changed the list that snapshot gave it for a session with entries
C2_Witness ==
    /\ op.name = "mutate_list"
    /\ Len(StoredIds(history_manager, heap, caller.session)) > 0
    /\ heap.lists[caller.snap] # StoredIds(history_manager, heap, caller.session)

\* C3: no mutation a caller performs on the snapshot it received, changing
\* the speaker, content or images of an entry held in it included, changes
\* what the store returns for any session.
C3_NoAliasing ==
    [][op'.name \in {"mutate_list", "mutate_entry"} =>
         \A s \in SessionIds :
            Stored(history_manager', heap', s) = Stored(history_manager, heap, s)]_vars

-----------------------------------------------------------------------------
(* Claims about the pipeline, checked under SpecPipeline *)

PrioritiesOf(items) == [i \in 1..Len(items) |-> items[i].priority]

WithPriority(items, p) == SelectSeq(items, LAMBDA x : x.priority = p)

\* C4: after any sequence of register calls the plugin list is ordered by
\* descending priority, and entries of equal priority are in the order of
\* their registration; priorities [5, 10, 1] give the order [10, 5, 1].
C4_PipelineOrder ==
    LET plugins == plugin_manager.plugins
    IN /\ Len(plugins) = Len(registered)
       /\ \A i, j \in 1..Len(plugins) :
             i < j => plugins[i].priority >= plugins[j].priority
       /\ \A k \in 1..Len(registered) :
             WithPriority(plugins, registered[k].priority)
               = WithPriority(registered, registered[k].priority)
       /\ PrioritiesOf(registered) = <<5, 10, 1>> =>
             PrioritiesOf(plugins) = <<10, 5, 1>>

\* two different plugins of equal priority behind a plugin registered after them
C4_Witness ==
    LET plugins == plugin_manager.plugins
    IN /\ Len(plugins) = 3
       /\ plugins[1] = registered[3]
       /\ plugins[2].priority = plugins[3].priority
       /\ plugins[2].plugin # plugins[3].plugin
       /\ plugins[1].priority > plugins[2].priority

\* C5: a run invokes the hook of every registered plugin exactly once, in
\* pipeline order, hands each hook what the previous hook returned and
\* returns what the last hook returned; with no plugin registered it returns
\* the very payload it was given.
C5_FoldInOrder ==
    LET plugins == plugin_manager.plugins
        t == run.trace
    IN /\ Len(t) <= Len(plugins)
       /\ \A i \in 1..Len(t) :
            /\ t[i].plugin = plugins[i].plugin
            /\ t[i].got = IF i = 1 THEN run.input ELSE t[i - 1].gave
       /\ run.status = "running" => Len(t) = run.idx - 1
       /\ run.status = "returned" =>
            /\ Len(t) = Len(plugins)
            /\ run.result = IF t = <<>> THEN run.input ELSE t[Len(t)].gave
            /\ run.result # NoPayload

\* a finished run of at least two hooks, the second given a payload the first rewrote
C5_Witness ==
    /\ run.status = "returned"
    /\ Len(run.trace) >= 2
    /\ run.trace[2].got # run.input
    /\ run.result.id # run.input.id

\* C6: when a hook fails no later hook of the run is invoked, the run gives
\* its caller the failure and no payload, and the registration list is as it
\* was.
C6_FailureAborts ==
    [][/\ \A i \in 1..Len(run'.trace) :
            run'.trace[i].outcome = "raise" =>
               /\ i = Len(run'.trace)
               /\ run'.status = "raised"
               /\ run'.result = NoPayload
       /\ (run.status = "running" /\ run'.status = "raised") =>
            /\ plugin_manager' = plugin_manager
            /\ Len(run'.trace) = run.idx
       /\ run.status = "raised" =>
            \/ run'.trace = run.trace /\ run'.status = "raised"
            \/ run'.trace = <<>>
      ]_vars

\* a hook failed with plugins still behind it in the pipeline
C6_Witness ==
    /\ run.status = "raised"
    /\ op.name = "hook"
    /\ Len(run.trace) < Len(plugin_manager.plugins)
    /\ run.trace[Len(run.trace)].outcome = "raise"

-----------------------------------------------------------------------------
(* Claims about the message handler, checked under Spec *)

InFlight == {m \in MsgIds : msgs[m].pc = "posting"}

\* C7: under any interleaving of the handlers at most one POST to the
\* language model is in flight at any time.
C7_OneCallInFlight == Cardinality(InFlight) <= 1

\* one POST is in flight while another message waits for the lock
C7_Witness ==
    \E m, k \in MsgIds :
        /\ msgs[m].pc = "posting"
        /\ msgs[k].pc = "waiting"
        /\ msgs[m].session_id # msgs[k].session_id

\* C8: a group message of a user gets a reply exactly if it is addressed to
\* the bot, or the draw is below the probability and an API key is
\* configured; with probability 0 a message not addressed to the bot gets
\* none, and an addressed message gets one without an API key too.
C8_ReplyDecision ==
    op.name \in {"skip", "pending"} =>
        /\ op.name = "pending" <=>
              \/ op.event.to_me
              \/ /\ op.draw < plugin_config.simple_gpt_reply_probability
                 /\ plugin_config.simple_gpt_api_key # <<>>
        /\ (plugin_config.simple_gpt_reply_probability = 0 /\ ~op.event.to_me) =>
              op.name = "skip"
        /\ op.event.to_me => op.name = "pending"
        /\ msgs[op.msg].reply_needed <=> op.name = "pending"

\* a random reply: the message is not addressed to the bot
C8_Witness ==
    /\ op.name = "pending"
    /\ ~op.event.to_me
    /\ msgs[op.msg].pc = "posting"

\* C9: a skipped message makes no remote call and emits nothing, and the
\* history of its session gains exactly one entry, the user's turn with
\* is_bot false; the handler has returned and does nothing more.
C9_SkippedRecordsUserOnly ==
    [][/\ op'.name = "skip" =>
            /\ lock' = lock
            /\ \A m \in MsgIds : msgs'[m].pc = "posting" <=> msgs[m].pc = "posting"
            /\ emitted' = emitted
            /\ msgs'[op'.msg].pc = "returned"
            /\ Len(heap'.entries) = Len(heap.entries) + 1
            /\ appended' = [appended EXCEPT
                              ![op'.session_id] = Append(@, Len(heap'.entries))]
            /\ heap'.entries[Len(heap'.entries)]
                 = HistoryEntry(DisplayName(op'.event), PlainText(op'.event), FALSE)
            /\ LET now == StoredIds(history_manager', heap', op'.session_id)
               IN now[Len(now)] = Len(heap'.entries)
            /\ \A s \in SessionIds \ {op'.session_id} :
                 StoredIds(history_manager', heap', s) = StoredIds(history_manager, heap, s)
       /\ \A m \in MsgIds : msgs[m].pc = "returned" =>
            /\ msgs'[m].pc = "returned"
            /\ emitted'[m] = emitted[m]
      ]_vars

\* "hello", not addressed to the bot, probability 0, in a session with history
C9_Witness ==
    /\ op.name = "skip"
    /\ ~op.event.to_me
    /\ plugin_config.simple_gpt_reply_probability = 0
    /\ PlainText(op.event) = <<"h">>
    /\ Len(StoredIds(history_manager, heap, op.session_id)) > 1

\* C10: for a message that gets a reply, every outcome of the remote call
\* other than a body with a non-empty string at choices[0].message.content
\* (no API key, a transport or status error, a timeout, a body of any other
\* shape) ends with the fallback text emitted exactly once and no exception
\* leaving the handler.
C10_FallbackOnEveryFailure ==
    [][/\ (op'.name = "response" /\ op'.outcome \notin GoodOutcomes) =>
            /\ msgs'[op'.msg].pc = "sending"
            /\ msgs'[op'.msg].reply_text = plugin_config.simple_gpt_failure_reply
       /\ (op'.name = "pending" /\ plugin_config.simple_gpt_api_key = <<>>) =>
            /\ msgs'[op'.msg].pc = "sending"
            /\ msgs'[op'.msg].reply_text = plugin_config.simple_gpt_failure_reply
       /\ op'.name = "sent" =>
            /\ emitted[op'.msg] = <<>>
            /\ emitted'[op'.msg] = <<msgs[op'.msg].reply_text>>
      ]_vars

\* C11: every group message of a user ends with its user turn appended to
\* the history of its session, whether it was skipped, answered or answered
\* with the fallback, and also when the remote call or the sending of the
\* reply fails; the content is the placeholder when the message had no
\* text.  Stated on the step that ends the handler: that step appends the
\* user turn.
C11_UserTurnAlwaysRecorded ==
    [][/\ \A m \in MsgIds :
            (/\ msgs[m].pc # msgs'[m].pc
             /\ msgs'[m].pc \in {"returned", "raised"}
             /\ op'.name # "discard") =>
                /\ op'.name \in {"skip", "sent"}
                /\ op'.msg = m
                /\ appended'[op'.session_id]
                     = appended[op'.session_id] \o op'.ids
                /\ op'.ids[1] \in
                     {StoredIds(history_manager', heap', op'.session_id)[i] :
                        i \in 1..Len(StoredIds(history_manager', heap', op'.session_id))}
                /\ ~heap'.entries[op'.ids[1]].is_bot
                /\ heap'.entries[op'.ids[1]].content
                     = IF op'.name = "skip" THEN PlainText(op'.event)
                       ELSE msgs[m].plain_text
       /\ op'.name = "pending" =>
            msgs'[op'.msg].plain_text = PlainText(op'.event)
       /\ op'.name \in {"skip", "pending"} =>
            (Strip(op'.event.text) = <<>> <=> PlainText(op'.event) = NoTextPlaceholder)
      ]_vars

\* C12 as stated: a step records a bot turn exactly if it emits a reply
\* text, whatever the text is, and the recorded content is the emitted text;
\* so an addressed message without an API key records the user turn and a
\* bot turn holding the fallback, for every configured fallback.
C12_BotTurnIffEmitted ==
    [][LET added == {i \in (Len(heap.entries) + 1)..Len(heap'.entries) :
                        heap'.entries[i].is_bot}
       IN /\ added # {} <=> emitted' # emitted
          /\ op'.name = "sent" =>
                /\ emitted'[op'.msg] = Append(emitted[op'.msg], op'.text)
                /\ Len(op'.ids) = 2
                /\ added = {op'.ids[2]}
                /\ heap'.entries[op'.ids[2]].content = op'.text
      ]_vars

\* C12 amended: a step records a bot turn exactly if it emits a non-empty
\* reply text, and the recorded content is the emitted text; an empty
\* fallback is sent but not recorded.
C12_BotTurnIffNonEmptyEmitted ==
    [][LET added == {i \in (Len(heap.entries) + 1)..Len(heap'.entries) :
                        heap'.entries[i].is_bot}
       IN /\ emitted' # emitted <=> op'.name = "sent"
          /\ added # {} <=> (op'.name = "sent" /\ op'.text # <<>>)
          /\ op'.name = "sent" =>
                /\ emitted'[op'.msg] = Append(emitted[op'.msg], op'.text)
                /\ op'.text = msgs[op'.msg].reply_text
                /\ ~heap'.entries[op'.ids[1]].is_bot
                /\ IF op'.text = <<>>
                   THEN Len(op'.ids) = 1
                   ELSE /\ Len(op'.ids) = 2
                        /\ added = {op'.ids[2]}
                        /\ heap'.entries[op'.ids[2]]
                             = HistoryEntry(BotLabel, op'.text, TRUE)
                        /\ LET now == StoredIds(history_manager', heap', op'.session_id)
                           IN now[Len(now)] = op'.ids[2]
      ]_vars

\* an addressed message without an API key has recorded both turns, the
\* bot turn holding the fallback
C12_Witness ==
    /\ op.name = "sent"
    /\ plugin_config.simple_gpt_api_key = <<>>
    /\ op.text = DefaultFailureReply
    /\ Len(op.ids) = 2
    /\ heap.entries[op.ids[2]].content = plugin_config.simple_gpt_failure_reply

-----------------------------------------------------------------------------
(* The bot with its built-in plugins: the package src/plugins is imported  *)
(* at some moment, once, and registers RemoveThinkTagPlugin.               *)

\* plugins/__init__.py imports remove_think, whose last line is
\* register_simple_gpt_plugin(RemoveThinkTagPlugin()); a module is imported once
LoadBuiltinPlugins ==
    /\ registered = <<>>
    /\ Register("RemoveThinkTagPlugin", NoPriority)

InitLoaded ==
    /\ plugin_config = Config(MaxLimit, <<"s", "k">>, 0, DefaultFailureReply)
    /\ HistoryIdle
    /\ PipelineIdle
    /\ BotIdle
    /\ PureIdle
    /\ op = [name |-> "init"]

NextLoaded ==
    \/ Next
    \/ LoadBuiltinPlugins

SpecLoaded == InitLoaded /\ [][NextLoaded]_vars

\* C13: for a message that gets a reply, with a plugin registered, the
\* before-hooks of all plugins have run when the POST is invoked, and when
\* the POST has succeeded the after-hooks of all plugins have run on the
\* response before the text is sent.
C13_HooksAroundCall ==
    [][plugin_manager.plugins # <<>> =>
          /\ (op'.name \in {"pending", "resume"} /\ msgs'[op'.msg].pc = "posting") =>
                /\ run'.kind = "before"
                /\ run'.status = "returned"
                /\ Len(run'.trace) = Len(plugin_manager.plugins)
          /\ (op'.name = "response" /\ op'.outcome \in GoodOutcomes) =>
                /\ run'.kind = "after"
                /\ run'.status = "returned"
                /\ Len(run'.trace) = Len(plugin_manager.plugins)
      ]_vars

-----------------------------------------------------------------------------
(* extract_image_data_urls applied to a message *)

Messages == UNION {[1..n -> SegmentInputs] : n \in 0..MaxSegments}

InitImages ==
    /\ plugin_config = Config(1, <<>>, 0, DefaultFailureReply)
    /\ HistoryIdle
    /\ PipelineIdle
    /\ BotIdle
    /\ llm_response = PayloadIdle
    /\ images \in {[ImagesIdle EXCEPT !.message = m, !.idx = 1, !.status = "running"] :
                      m \in Messages}
    /\ op = [name |-> "init"]

\* one iteration of `for segment in message` (lines 23-28); an exception
\* of _segment_to_data_url leaves extract_image_data_urls
ExtractSegment ==
    /\ images.status = "running"
    /\ images.idx <= Len(images.message)
    /\ LET segment == images.message[images.idx]
           data_url == _segment_to_data_url(segment)
       IN images' =
            IF segment.type # "image"
            THEN [images EXCEPT !.idx = @ + 1,
                    !.results = Append(@, [called |-> FALSE, raised |-> FALSE,
                                           value |-> NoDataUrl])]
            ELSE IF data_url.raised
            THEN [images EXCEPT !.status = "raised",
                    !.results = Append(@, [called |-> TRUE, raised |-> TRUE,
                                           value |-> NoDataUrl])]
            ELSE [images EXCEPT !.idx = @ + 1,
                    !.data_urls = IF data_url.value.none THEN @
                                  ELSE Append(@, data_url.value),
                    !.results = Append(@, [called |-> TRUE, raised |-> FALSE,
                                           value |-> data_url.value])]
    /\ op' = [name |-> "segment"]
    /\ UNCHANGED <<plugin_config, histVars, pipeVars, botVars, llm_response>>

\* the loop is over: return data_urls (line 29)
ExtractReturn ==
    /\ images.status = "running"
    /\ images.idx > Len(images.message)
    /\ images' = [images EXCEPT !.status = "returned"]
    /\ op' = [name |-> "return"]
    /\ UNCHANGED <<plugin_config, histVars, pipeVars, botVars, llm_response>>

NextImages ==
    \/ ExtractSegment
    \/ ExtractReturn

SpecImages == InitImages /\ [][NextImages]_vars

-----------------------------------------------------------------------------
(* RemoveThinkTagPlugin.after_llm_response applied to a content *)

Contents == UNION {[1..n -> ThinkPieces] : n \in 0..MaxContent}

InitThink ==
    /\ plugin_config = Config(1, <<>>, 0, DefaultFailureReply)
    /\ HistoryIdle
    /\ PipelineIdle
    /\ BotIdle
    /\ images = ImagesIdle
    /\ llm_response \in {[status |-> "called", original |-> c, content |-> c] :
                            c \in Contents}
    /\ op = [name |-> "init"]

\* the hook runs and returns the payload it was given, its content rewritten
AfterLlmResponse ==
    /\ llm_response.status = "called"
    /\ llm_response' = [llm_response EXCEPT
            !.status = "returned",
            !.content = after_llm_response(llm_response.content)]
    /\ op' = [name |-> "after_llm_response"]
    /\ UNCHANGED <<plugin_config, histVars, pipeVars, botVars, images>>

NextThink == AfterLlmResponse

SpecThink == InitThink /\ [][NextThink]_vars

-----------------------------------------------------------------------------
(* Claims about the images and the response hook *)

\* a local file over the ceiling behind the token
OversizedFile(token) ==
    /\ token.form \in {"path", "file_uri"}
    /\ token.stat = "ok"
    /\ ~token.read.none
    /\ token.read.size > MAX_IMAGE_BYTES

\* an HTTP body over the ceiling behind the token
OversizedBody(token) ==
    /\ token.form = "url"
    /\ token.fetch = "ok"
    /\ token.body.size > MAX_IMAGE_BYTES

Oversized(token) == OversizedFile(token) \/ OversizedBody(token)

\* C14 as stated: an image reference that carries a local file or an HTTP
\* body larger than 5 MiB normalizes to None, never to a data URL, whatever
\* its other fields are.
C14_OversizeAlwaysNone ==
    \A i \in 1..Len(images.results) :
        LET segment == images.message[i]
        IN (/\ images.results[i].called
            /\ ~images.results[i].raised
            /\ \/ Oversized(segment.file)
               \/ Oversized(segment.path)
               \/ Oversized(segment.url)) =>
              images.results[i].value.none

\* C14 amended: bytes larger than 5 MiB that were read from a local file or
\* fetched over HTTP are never encoded into a data URL, and a reference all
\* of whose fields are oversized files or bodies normalizes to None; an
\* oversized field does not keep a later field from giving the data URL.
C14_OversizeNeverEncoded ==
    \A i \in 1..Len(images.results) :
        LET segment == images.message[i]
            result == images.results[i]
            fields == {t \in {segment.file, segment.path, segment.url} :
                          t.form # "none"}
        IN result.called =>
             /\ (~result.value.none /\ result.value.source # "inline") =>
                   result.value.size <= MAX_IMAGE_BYTES
             /\ (fields # {} /\ \A t \in fields : Oversized(t)) =>
                   (~result.raised /\ result.value.none)

\* a reference with an oversized file and an oversized body gave None, and
\* one with an oversized file and a body at the ceiling gave the body
C14_Witness ==
    /\ images.status = "returned"
    /\ Len(images.results) = 2
    /\ OversizedFile(images.message[1].file)
    /\ OversizedBody(images.message[1].url)
    /\ images.results[1].value.none
    /\ OversizedFile(images.message[2].file)
    /\ images.message[2].url.body = AtCeiling
    /\ images.results[2].value.source = "url"
    /\ images.results[2].value.size = MAX_IMAGE_BYTES

\* the data URLs of the image segments among the first n that normalize
RECURSIVE Survivors(_, _)
Survivors(message, n) ==
    IF n = 0 THEN <<>>
    ELSE LET r == _segment_to_data_url(message[n])
         IN Survivors(message, n - 1)
              \o (IF message[n].type = "image" /\ ~r.raised /\ ~r.value.none
                  THEN <<r.value>> ELSE <<>>)

\* C15: extract_image_data_urls gives the data URLs of exactly the image
\* segments that normalize, in their order, and a segment that fails is
\* dropped: no segment makes the call end before the segments after it are
\* taken.
C15_BatchContract ==
    /\ images.status # "raised"
    /\ images.status \in {"running", "returned"} =>
          images.data_urls = Survivors(images.message, images.idx - 1)
    /\ images.status = "returned" => images.idx = Len(images.message) + 1

\* a closed <think>...</think> segment in the characters of the content
ContainsThink(content) ==
    LET c == Canon(content)
    IN \E i, j \in 1..Len(c) : i < j /\ IsOpenTag(c[i]) /\ c[j] = "</think>"

\* C17: when after_llm_response has returned, the content has no
\* <think>...</think> segment, for every content it was given, the empty
\* one and one made of such segments only included, and the hook has put
\* no text of its own into it.
C17_NoThinkLeft ==
    llm_response.status = "returned" =>
        /\ ~ContainsThink(llm_response.content)
        /\ \A i \in 1..Len(llm_response.content) :
              llm_response.content[i] \in ThinkPieces

-----------------------------------------------------------------------------
(* Claims about the order of the steps of the handler *)

\* what generate_prompt renders of the entries a session holds
HistoryLinesOf(hm, h, session_id) ==
    LET ids == StoredIds(hm, h, session_id)
    IN [i \in 1..Len(ids) |-> <<h.entries[ids[i]].speaker, h.entries[ids[i]].content>>]

\* a message is between its reception and the end of its handler
InProgress(m) == msgs[m].pc \in {"waiting", "posting", "sending"}

\* C16: the prompt of a message is built from the history as it is before
\* any append for the message, so it holds neither turn of the message;
\* both appends of the message happen after its POST has ended and its
\* reply has been sent, in one step, the user turn before the bot turn.
C16_SnapshotBeforeAppends ==
    [][/\ op'.name = "pending" =>
            /\ appended' = appended
            /\ heap'.entries = heap.entries
            /\ msgs'[op'.msg].pc \in {"waiting", "posting"} =>
                 /\ msgs'[op'.msg].prompt.history_lines
                      = HistoryLinesOf(history_manager, heap, op'.session_id)
                 /\ msgs'[op'.msg].prompt.placeholder
                      = (StoredIds(history_manager, heap, op'.session_id) = <<>>)
       /\ op'.name \in {"resume", "response", "send_failed", "discard"} =>
            /\ appended' = appended
            /\ heap'.entries = heap.entries
       /\ \A m \in MsgIds : (InProgress(m) /\ msgs'[m].pc \in {"waiting", "posting"}) =>
            msgs'[m].prompt = msgs[m].prompt
       /\ op'.name = "sent" =>
            /\ msgs[op'.msg].pc = "sending"
            /\ \A k \in MsgIds : msgs[k].pc = "posting" => k # op'.msg
            /\ emitted'[op'.msg] = Append(emitted[op'.msg], op'.text)
            /\ \A i \in 1..Len(op'.ids) : op'.ids[i] = Len(heap.entries) + i
            /\ appended'[op'.session_id] = appended[op'.session_id] \o op'.ids
            /\ ~heap'.entries[op'.ids[1]].is_bot
            /\ Len(op'.ids) = 2 => heap'.entries[op'.ids[2]].is_bot
      ]_vars

\* a reply was recorded in a session that had history when the message came
C16_Witness ==
    /\ op.name = "sent"
    /\ plugin_config.simple_gpt_api_key # <<>>
    /\ Len(op.ids) = 2
    /\ Len(appended[op.session_id]) > 2
    /\ op.text # plugin_config.simple_gpt_failure_reply

\* C18: in the history of a session the bot turn of a message comes
\* immediately behind the user turn of the same message: the two are
\* appended in one step, the stored entries are the latest ones appended,
\* and no entry of another message is ever between them.
C18_TurnsAdjacent ==
    [][/\ op'.name = "sent" /\ Len(op'.ids) = 2 =>
            /\ op'.ids = <<Len(heap.entries) + 1, Len(heap.entries) + 2>>
            /\ appended'[op'.session_id] = appended[op'.session_id] \o op'.ids
       /\ \A s \in SessionIds :
            LET stored == StoredIds(history_manager', heap', s)
                all == appended'[s]
            IN /\ Len(stored) <= Len(all)
               /\ stored = SubSeq(all, Len(all) - Len(stored) + 1, Len(all))
               /\ \A k \in 1..Len(all) :
                    /\ heap'.entries[all[k]].is_bot =>
                         /\ k > 1
                         /\ all[k - 1] = all[k] - 1
                         /\ ~heap'.entries[all[k - 1]].is_bot
                    /\ (/\ ~heap'.entries[all[k]].is_bot
                        /\ all[k] < Len(heap'.entries)
                        /\ heap'.entries[all[k] + 1].is_bot) =>
                         /\ k < Len(all)
                         /\ all[k + 1] = all[k] + 1
      ]_vars

\* two messages of one session were handled concurrently, the later one
\* recorded first, and both pairs of turns are in the history of appends
C18_Witness ==
    /\ op.name = "sent"
    /\ op.msg = 1
    /\ Len(op.ids) = 2
    /\ msgs[2].pc = "returned"
    /\ emitted[2] # <<>>
    /\ Len(appended[op.session_id]) = 4
    /\ Len(StoredIds(history_manager, heap, op.session_id)) = 2

-----------------------------------------------------------------------------
(* The handler under fair scheduling: a POST that is in flight ends (it    *)
(* returns, fails or times out: httpx's timeout), and the event loop runs   *)
(* the waiter that release has woken.                                       *)

SpecFair ==
    /\ InitLoaded
    /\ [][Next]_vars
    /\ WF_vars(\E m \in MsgIds, i \in 1..Len(Outcomes) : Response(m, i))
    /\ WF_vars(\E m \in MsgIds : LockResume(m))

\* C19: the lock is released when a POST ends, whatever it came to, and
\* every message that waits for the lock gets to its own POST.
C19_LockAlwaysReleased ==
    /\ [][op'.name = "response" =>
            /\ lock.locked
            /\ ~lock'.locked
            /\ lock'.waiters = lock.waiters]_vars
    /\ \A m \in MsgIds : (msgs[m].pc = "waiting") ~> (msgs[m].pc = "posting")
    /\ []<>(~lock.locked)

\* a message that waited has the lock after a POST that failed
C19_Witness ==
    /\ op.name = "resume"
    /\ msgs[op.msg].pc = "posting"
    /\ \E k \in MsgIds :
         \/ msgs[k].pc = "raised"
         \/ /\ msgs[k].pc = "sending"
            /\ msgs[k].reply_text = plugin_config.simple_gpt_failure_reply

\* C20 as stated: the user turns of a session are recorded in the order in
\* which the messages were received: no message is recorded while a message
\* of its session that was received before it is still in progress.
C20_RecordedInReceptionOrder ==
    [][op'.name \in {"skip", "sent"} =>
          \A k \in MsgIds :
              (k < op'.msg /\ InProgress(k)) => msgs[k].session_id # op'.session_id
      ]_vars

\* C20 amended: the turns are recorded in the order in which the handlers
\* end.  A message that gets no reply is recorded in the step that receives
\* it, a message that gets a reply when its reply has been sent, always at
\* the end of the history of its session; the POSTs are made in the order
\* of reception.
C20_RecordedInCompletionOrder ==
    [][/\ op'.name = "skip" =>
            /\ msgs[op'.msg].pc = "new"
            /\ appended'[op'.session_id] = appended[op'.session_id] \o op'.ids
            /\ op'.ids = <<Len(heap.entries) + 1>>
       /\ op'.name = "sent" =>
            /\ msgs[op'.msg].pc = "sending"
            /\ appended'[op'.session_id] = appended[op'.session_id] \o op'.ids
       /\ op'.name \notin {"skip", "sent"} => appended' = appended
       /\ \A m \in MsgIds :
            (msgs[m].pc # "posting" /\ msgs'[m].pc = "posting") =>
               \A k \in MsgIds : k < m => msgs'[k].pc \notin {"new", "waiting", "posting"}
      ]_vars

\* a message without reply is recorded while the message received before
\* it, of the same session, is waiting for the answer to its POST
C20_Witness ==
    /\ op.name = "skip"
    /\ op.msg = 2
    /\ msgs[1].pc = "posting"
    /\ msgs[1].session_id = op.session_id
    /\ Len(appended[op.session_id]) = 1
====
